---- MODULE Spec2Model ----
(***************************************************************************)
(* Feature verification harness of skillbox: the feature registry          *)
(* (lib/features.py), the harness-state document (lib/bootstrap.py), the   *)
(* initialisation CLI (harness_init.py) and the Stop gate                  *)
(* (stop-verification.py).                                                 *)
(*                                                                         *)
(* Conventions.  A Python Optional is a sequence of length at most one:    *)
(* None is <<>> and a present value v is <<v>>; JSON null is None.  A JSON *)
(* object is a function from its keys.  A timestamp                        *)
(* (datetime.now().isoformat()) is the positive integer read from the      *)
(* clock; 0 stands for the empty string, which Python treats as false.     *)
(* A file is None when the path does not exist and <<text>> otherwise; a   *)
(* text is what json.loads makes of it: BadJson when it raises             *)
(* JSONDecodeError, <<object>> when it parses.                             *)
(***************************************************************************)
EXTENDS Integers, Sequences, FiniteSets, TLC

VARIABLES
    fl,        \* the FeatureList object held by the calling process (Optional)
    disk,      \* .claude/features.json
    harness,   \* .claude/harness.json
    stdout,    \* the JSON objects printed by the most recent operation
    clock,     \* wall clock read by datetime.now()
    calls,     \* external tracker (bd) invocations of the most recent operation
    last,      \* the most recent operation and what it returned
    ops,       \* how many steps have been taken
    stdin,     \* the input of the most recent hook run or query
    memories,  \* .serena/memories: the checkpoint files
    beads_dir, \* whether the .beads/ directory exists
    procs,     \* the sessions running side by side: where each one is, and its locals
    bytes      \* the length of the text last left in the file the sessions write

vars == <<fl, disk, harness, stdout, clock, calls, last, ops,
          stdin, memories, beads_dir, procs, bytes>>

\* What the operations of a single caller leave alone.
others == <<stdin, memories, beads_dir, procs, bytes>>

----
\* Bounds of the model.

MaxFeatures == 2

MaxClock == 2

MaxOps == 5

MaxGateFeatures == 6

MaxQueryFeatures == 4

MaxSessions == 16

MaxMessages == 2

Ids == {"a", "b"}

Outputs == {"ok"}

GateIds == <<"f1", "f2", "f3", "f4", "f5", "f6", "f7", "f8">>

----
\* Optionals, files and JSON objects.

None == <<>>

Some(x) == <<x>>

NoFile == <<>>

File(text) == <<text>>

BadJson == <<>>

Json(obj) == <<obj>>

EmptyStr == 0

Get(obj, key, default) == IF key \in DOMAIN obj THEN obj[key] ELSE default

Take(s, n) == SubSeq(s, 1, IF Len(s) < n THEN Len(s) ELSE n)

\* The indices i, i+1, ... of s, in order, whose element has a status in wanted.
RECURSIVE IndicesFrom(_, _, _)
IndicesFrom(s, i, wanted) ==
    IF i > Len(s) THEN <<>>
    ELSE IF s[i].status \in wanted THEN <<i>> \o IndicesFrom(s, i + 1, wanted)
    ELSE IndicesFrom(s, i + 1, wanted)

----
\* class FeatureStatus: member names and their string values.

FeatureStatus == {"PENDING", "IN_PROGRESS", "IMPLEMENTED", "VERIFIED", "FAILED"}

StatusValue ==
    [m \in FeatureStatus |->
        CASE m = "PENDING" -> "pending"
          [] m = "IN_PROGRESS" -> "in_progress"
          [] m = "IMPLEMENTED" -> "implemented"
          [] m = "VERIFIED" -> "verified"
          [] m = "FAILED" -> "failed"]

StatusValues == {StatusValue[m] : m \in FeatureStatus}

\* FeatureStatus(value): the member with that value (the caller has checked
\* that there is one; otherwise the constructor raises ValueError).
StatusOfValue(v) == CHOOSE m \in FeatureStatus : StatusValue[m] = v

----
\* class Feature.

Feature(id, description, status, verification, beads_id, last_verified, verification_output) ==
    [id |-> id, description |-> description, status |-> status,
     verification |-> verification, beads_id |-> beads_id,
     last_verified |-> last_verified, verification_output |-> verification_output]

\* Mutant: the external task id is not written to the file.
to_dict_NoBeads(f) ==
    [id |-> f.id, description |-> f.description, status |-> StatusValue[f.status],
     verification |-> f.verification, beads_id |-> None,
     last_verified |-> f.last_verified, verification_output |-> f.verification_output]

to_dict(f) ==
    [id |-> f.id, description |-> f.description, status |-> StatusValue[f.status],
     verification |-> f.verification, beads_id |-> f.beads_id,
     last_verified |-> f.last_verified, verification_output |-> f.verification_output]

\* Mutant: every key is read with data.get and a default.
from_dict_Lenient(data) ==
    IF Get(data, "status", "pending") \notin StatusValues
    THEN [err |-> "ValueError", val |-> None]
    ELSE [err |-> "",
          val |-> Some(Feature(Get(data, "id", ""), Get(data, "description", ""),
                               StatusOfValue(Get(data, "status", "pending")),
                               Get(data, "verification", None),
                               Get(data, "beads_id", None),
                               Get(data, "last_verified", None),
                               Get(data, "verification_output", None)))]

\* Feature.from_dict: err is "" and val the feature, or err names the
\* exception raised (data["id"], data["description"], data["status"] are
\* evaluated in this order, then FeatureStatus(...)).
from_dict(data) ==
    IF ~ ({"id", "description", "status"} \subseteq DOMAIN data)
    THEN [err |-> "KeyError", val |-> None]
    ELSE IF data["status"] \notin StatusValues
    THEN [err |-> "ValueError", val |-> None]
    ELSE [err |-> "",
          val |-> Some(Feature(data["id"], data["description"],
                               StatusOfValue(data["status"]),
                               Get(data, "verification", None),
                               Get(data, "beads_id", None),
                               Get(data, "last_verified", None),
                               Get(data, "verification_output", None)))]

----
\* class FeatureList.

\* FeatureList.__init__ ("created or now", "updated or self.created").
FeatureList(version, created, updated, features, now) ==
    LET c == IF created = EmptyStr THEN now ELSE created
    IN  [version |-> version, created |-> c,
         updated |-> IF updated = EmptyStr THEN c ELSE updated,
         features |-> features]

\* FeatureList.load: None when the file is missing or when json.loads or
\* from_dict raises JSONDecodeError, KeyError or ValueError.
load(file, now) ==
    IF file = NoFile THEN None
    ELSE IF file[1] = BadJson THEN None
    ELSE LET data == file[1][1]
             dicts == Get(data, "features", <<>>)
             parsed == [i \in 1..Len(dicts) |-> from_dict(dicts[i])]
         IN  IF \E i \in 1..Len(dicts) : parsed[i].err # ""
             THEN None
             ELSE Some(FeatureList(Get(data, "version", "1.0.0"),
                                   Get(data, "created", EmptyStr),
                                   Get(data, "updated", EmptyStr),
                                   [i \in 1..Len(dicts) |-> parsed[i].val[1]],
                                   now))

\* Mutant: save writes the document without refreshing self.updated.
save_StaleUpdated(list, now) ==
    [self |-> list,
     file |-> File(Json([version |-> list.version,
                         created |-> list.created,
                         updated |-> list.updated,
                         features |-> [i \in 1..Len(list.features) |->
                                          to_dict(list.features[i])]]))]

\* FeatureList.save: refreshes self.updated and rewrites the whole document.
save(list, now) ==
    LET saved == [list EXCEPT !.updated = now]
    IN  [self |-> saved,
         file |-> File(Json([version |-> saved.version,
                             created |-> saved.created,
                             updated |-> saved.updated,
                             features |-> [i \in 1..Len(saved.features) |->
                                              to_dict(saved.features[i])]]))]

\* FeatureList.add_feature, given what _create_beads_task returned.
add_feature(list, feature_id, description, verification, beads_id) ==
    [list EXCEPT !.features =
        Append(@, Feature(feature_id, description, "PENDING", verification,
                          beads_id, None, None))]

\* Mutant: an id that is not found falls back to the first feature.
get_feature_FirstOrDefault(list, feature_id) ==
    IF \E i \in 1..Len(list.features) : list.features[i].id = feature_id
    THEN CHOOSE i \in 1..Len(list.features) :
            /\ list.features[i].id = feature_id
            /\ \A j \in 1..(i - 1) : list.features[j].id # feature_id
    ELSE IF list.features # <<>> THEN 1 ELSE 0

\* FeatureList.get_feature: the index of the first feature with that id,
\* 0 when there is none.
get_feature(list, feature_id) ==
    IF \E i \in 1..Len(list.features) : list.features[i].id = feature_id
    THEN CHOOSE i \in 1..Len(list.features) :
            /\ list.features[i].id = feature_id
            /\ \A j \in 1..(i - 1) : list.features[j].id # feature_id
    ELSE 0

\* Mutant: once the id is found, the new status is written to every feature.
update_status_All(list, feature_id, status, verification_output, now) ==
    LET i == get_feature(list, feature_id)
        set(f0) == LET f1 == [f0 EXCEPT !.status = status]
                   IN  IF status \in {"VERIFIED", "FAILED"}
                       THEN [f1 EXCEPT !.last_verified = Some(now),
                                       !.verification_output = verification_output]
                       ELSE f1
    IN  IF i = 0
        THEN [self |-> list, ret |-> FALSE, bd |-> <<>>]
        ELSE [self |-> [list EXCEPT !.features =
                           [k \in 1..Len(list.features) |-> set(list.features[k])]],
              ret |-> TRUE,
              bd |-> IF status = "VERIFIED" /\ list.features[i].beads_id # None
                     THEN <<[cmd |-> "close", task |-> list.features[i].beads_id[1]]>>
                     ELSE IF status = "IN_PROGRESS" /\ list.features[i].beads_id # None
                     THEN <<[cmd |-> "update", task |-> list.features[i].beads_id[1]]>>
                     ELSE <<>>]

\* FeatureList.update_status: the list afterwards, the return value and the
\* tracker commands issued.
update_status(list, feature_id, status, verification_output, now) ==
    LET i == get_feature(list, feature_id)
    IN  IF i = 0
        THEN [self |-> list, ret |-> FALSE, bd |-> <<>>]
        ELSE LET f0 == list.features[i]
                 f1 == [f0 EXCEPT !.status = status]
                 f2 == IF status \in {"VERIFIED", "FAILED"}
                       THEN [f1 EXCEPT !.last_verified = Some(now),
                                       !.verification_output = verification_output]
                       ELSE f1
                 close == IF status = "VERIFIED" /\ f2.beads_id # None
                          THEN <<[cmd |-> "close", task |-> f2.beads_id[1]]>>
                          ELSE <<>>
                 upd == IF status = "IN_PROGRESS" /\ f2.beads_id # None
                        THEN <<[cmd |-> "update", task |-> f2.beads_id[1]]>>
                        ELSE <<>>
             IN  [self |-> [list EXCEPT !.features[i] = f2],
                  ret |-> TRUE,
                  bd |-> close \o upd]

\* Mutant: the gate asks for every feature that is not verified.
get_implemented_unverified_NotVerified(list) ==
    IndicesFrom(list.features, 1, FeatureStatus \ {"VERIFIED"})

\* FeatureList.get_implemented_unverified, as indices in registry order.
get_implemented_unverified(list) == IndicesFrom(list.features, 1, {"IMPLEMENTED"})

\* Mutant: the failed features are never collected.
get_failed_Never(list) == <<>>

\* [f for f in features.features if f.status == FeatureStatus.FAILED]
get_failed(list) == IndicesFrom(list.features, 1, {"FAILED"})

\* Mutant: only the statuses that occur get a key (no zero-filled start).
get_summary_Sparse(list) ==
    [v \in {StatusValue[list.features[i].status] : i \in 1..Len(list.features)} |->
        Cardinality({i \in 1..Len(list.features) :
                        StatusValue[list.features[i].status] = v})]

\* FeatureList.get_summary: {s.value: 0 for s in FeatureStatus}, then one
\* increment per feature.
get_summary(list) ==
    [v \in StatusValues |->
        Cardinality({i \in 1..Len(list.features) :
                        StatusValue[list.features[i].status] = v})]

\* Mutant: an empty registry does not count as verified.
all_verified_NonEmpty(list) ==
    /\ list.features # <<>>
    /\ \A i \in 1..Len(list.features) : list.features[i].status = "VERIFIED"

\* FeatureList.all_verified: all(...) over the features.
all_verified(list) ==
    \A i \in 1..Len(list.features) : list.features[i].status = "VERIFIED"

\* FeatureList.get_unverified, as indices in registry order.
get_unverified(list) ==
    IndicesFrom(list.features, 1, FeatureStatus \ {"VERIFIED"})

\* The statuses get_next_feature tries, in this order.
NextPriority == <<"IN_PROGRESS", "PENDING", "IMPLEMENTED">>

\* The outer loop of get_next_feature from the k-th status on: the index of
\* the first feature with the first status that occurs, 0 for None.
RECURSIVE get_next_from(_, _)
get_next_from(list, k) ==
    IF k > Len(NextPriority) THEN 0
    ELSE LET found == IndicesFrom(list.features, 1, {NextPriority[k]})
         IN  IF found # <<>> THEN found[1] ELSE get_next_from(list, k + 1)

\* Mutant: the first feature in registry order with any of the statuses.
get_next_feature_RegistryOrder(list) ==
    LET found == IndicesFrom(list.features, 1,
                             {NextPriority[k] : k \in 1..Len(NextPriority)})
    IN  IF found # <<>> THEN found[1] ELSE 0

\* FeatureList.get_next_feature.
get_next_feature(list) == get_next_from(list, 1)

----
\* lib/bootstrap.py: the harness-state document.

\* get_project_type of the modelled project directory: it holds none of the
\* marker files, so get_default_verification_command returns None as well.
ProjectType == None

get_default_verification_command(feature_id) ==
    IF ProjectType = None THEN None ELSE Some(<<ProjectType[1], feature_id>>)

\* Mutant: the initial document starts with an empty session list.
create_harness_state_NoSession(now) ==
    File(Json([version |-> "1.0.0", created |-> now, project_type |-> ProjectType,
               initialized |-> TRUE, sessions |-> <<>>]))

create_harness_state(now) ==
    File(Json([version |-> "1.0.0", created |-> now, project_type |-> ProjectType,
               initialized |-> TRUE,
               sessions |-> <<[id |-> 1, started |-> now, type |-> "initializer"]>>]))

\* Mutant: the harness counts as initialised whether or not the file exists.
is_harness_initialized_Always(file) == TRUE

is_harness_initialized(file) == file # NoFile

----
\* lib/response.py, for the Stop event.  allow prints the empty object, which
\* the host takes as "let the session stop"; block prints decision "block"
\* with the reason followed by the context.  The context is kept as its
\* parts: the count, the listed lines, the "... and k more" suffix and the
\* id used in the suggested commands.

allow ==
    [decision |-> "allow", reason |-> "", count |-> 0, named |-> <<>>,
     more |-> 0, first |-> ""]

block(reason, count, named, more, first) ==
    [decision |-> "block", reason |-> reason, count |-> count, named |-> named,
     more |-> more, first |-> first]

MaxNamedImplemented == 5

\* Mutant: the failed list is cut like the implemented list.
MaxNamedFailed_AsImplemented == MaxNamedImplemented

MaxNamedFailed == 3

\* stop-verification.py main(), lines 46-68: the block for implemented but
\* unverified features.
BlockUnverified(list) ==
    LET unverified == get_implemented_unverified(list)
        shown == Take(unverified, MaxNamedImplemented)
    IN  block("Unverified features detected",
              Len(unverified),
              [k \in 1..Len(shown) |->
                  [id |-> list.features[shown[k]].id,
                   text |-> Some(list.features[shown[k]].description)]],
              IF Len(unverified) > MaxNamedImplemented
              THEN Len(unverified) - MaxNamedImplemented ELSE 0,
              list.features[unverified[1]].id)

\* stop-verification.py main(), lines 74-89: the block for failed features
\* (each line is cut at 100 characters; the ids and outputs of the model are
\* shorter).
BlockFailed(list) ==
    LET failed == get_failed(list)
        shown == Take(failed, MaxNamedFailed)
    IN  block("Failed verifications detected",
              Len(failed),
              [k \in 1..Len(shown) |->
                  [id |-> list.features[shown[k]].id,
                   text |-> IF list.features[shown[k]].verification_output = None
                            THEN Some("No output")
                            ELSE list.features[shown[k]].verification_output]],
              0,
              list.features[failed[1]].id)

\* Mutant: the return after the first block is missing, so the failed check
\* runs as well.
Decide_NoReturn(list) ==
    (IF get_implemented_unverified(list) # <<>> THEN <<BlockUnverified(list)>> ELSE <<>>)
        \o (IF get_failed(list) # <<>> THEN <<BlockFailed(list)>> ELSE <<allow>>)

\* stop-verification.py main(), lines 42-93: the checks on a loaded registry,
\* each ending in a return.
Decide(list) ==
    IF get_implemented_unverified(list) # <<>> THEN <<BlockUnverified(list)>>
    ELSE IF get_failed(list) # <<>> THEN <<BlockFailed(list)>>
    ELSE <<allow>>

\* stop-verification.py main(): the objects it prints, in order.
StopMain(harnessFile, registryFile, now) ==
    IF ~ is_harness_initialized(harnessFile) THEN <<allow>>
    ELSE LET features == load(registryFile, now)
         IN  IF features = None THEN <<allow>>
             ELSE Decide(features[1])

----
\* The state machine.

TaskIds == {"bd-1"}

\* What _create_beads_task can return: a task id, or None when the tracker
\* is missing, fails, times out or prints no id.
Tasks == {None} \cup {Some(t) : t \in TaskIds}

\* ... and what it returns on a machine where the bd tool is not installed.
NoTracker == {None}

Op(op, ret) == [op |-> op, ret |-> ret]

Init ==
    /\ fl = None
    /\ disk = NoFile
    /\ harness = NoFile
    /\ stdout = <<>>
    /\ clock = 1
    /\ calls = <<>>
    /\ last = Op("init", "")
    /\ ops = 0
    /\ stdin = <<>>
    /\ memories = {}
    /\ beads_dir = FALSE
    /\ procs = <<>>
    /\ bytes = 0

\* One more step, while the budget of the model lasts (runs of the Stop hook,
\* which writes nothing, are not counted).
Count ==
    /\ ops < MaxOps
    /\ ops' = ops + 1

\* Time passes between two operations.
Tick ==
    /\ Count
    /\ clock < MaxClock
    /\ clock' = clock + 1
    /\ UNCHANGED <<fl, disk, harness, stdout, calls, last>>
    /\ UNCHANGED others

\* The caller constructs an empty FeatureList().
NewFeatureList ==
    /\ Count
    /\ fl' = Some(FeatureList("1.0.0", EmptyStr, EmptyStr, <<>>, clock))
    /\ calls' = <<>>
    /\ last' = Op("new", "")
    /\ stdout' = <<>>
    /\ UNCHANGED <<disk, harness, clock>>
    /\ UNCHANGED others

\* The caller runs load_features(project_dir).
Load ==
    /\ Count
    /\ fl' = load(disk, clock)
    /\ calls' = <<>>
    /\ last' = Op("load", IF load(disk, clock) = None THEN "None" ELSE "FeatureList")
    /\ stdout' = <<>>
    /\ UNCHANGED <<disk, harness, clock>>
    /\ UNCHANGED others

\* The caller runs fl.add_feature(id, description, verification,
\* auto_create_beads); task is what _create_beads_task returns (None when the
\* tracker is missing, fails, times out or prints no id).
AddFeature(id, auto_create_beads, task) ==
    /\ Count
    /\ fl # None
    /\ Len(fl[1].features) < MaxFeatures
    /\ (~ auto_create_beads) => task = None
    /\ fl' = Some(add_feature(fl[1], id, "d", None, task))
    /\ calls' = IF auto_create_beads THEN <<[cmd |-> "create", task |-> ""]>> ELSE <<>>
    /\ last' = Op("add_feature", "Feature")
    /\ stdout' = <<>>
    /\ UNCHANGED <<disk, harness, clock>>
    /\ UNCHANGED others

\* The caller runs fl.update_status(id, status, verification_output).
UpdateStatus(id, status, output) ==
    /\ Count
    /\ fl # None
    /\ LET r == update_status(fl[1], id, status, output, clock)
       IN  /\ fl' = Some(r.self)
           /\ calls' = r.bd
           /\ last' = Op("update_status", IF r.ret THEN "True" ELSE "False")
    /\ stdout' = <<>>
    /\ UNCHANGED <<disk, harness, clock>>
    /\ UNCHANGED others

\* The caller runs fl.save(get_features_path(project_dir)).
Save ==
    /\ Count
    /\ fl # None
    /\ LET r == save(fl[1], clock)
       IN  /\ fl' = Some(r.self)
           /\ disk' = r.file
    /\ calls' = <<>>
    /\ last' = Op("save", "")
    /\ stdout' = <<>>
    /\ UNCHANGED <<harness, clock>>
    /\ UNCHANGED others

\* The host runs the Stop hook.
Stop ==
    /\ stdout' = StopMain(harness, disk, clock)
    /\ calls' = <<>>
    /\ last' = Op("stop", "")
    /\ UNCHANGED <<fl, disk, harness, clock, ops>>
    /\ UNCHANGED others

\* harness_init.py main(): the loop over features_data[i..n].
RECURSIVE AddItems(_, _, _, _, _)
AddItems(list, items, tasks, i, n) ==
    IF i > n THEN list
    ELSE AddItems(add_feature(list, items[i]["id"],
                              Get(items[i], "description", items[i]["id"]),
                              IF Get(items[i], "verification", None) # None
                              THEN items[i]["verification"]
                              ELSE get_default_verification_command(items[i]["id"]),
                              tasks[i]),
                  items, tasks, i + 1, n)

\* The first item of features_data without an "id" key, 0 when all have one.
FirstMissingId(items) ==
    IF \E i \in 1..Len(items) : "id" \notin DOMAIN items[i]
    THEN CHOOSE i \in 1..Len(items) :
            /\ "id" \notin DOMAIN items[i]
            /\ \A j \in 1..(i - 1) : "id" \in DOMAIN items[j]
    ELSE 0

\* The items a --features list is made of: one with an id, one without.
InitItems == {[id |-> "a", description |-> "d"], [description |-> "d"]}

InitLists == UNION {[1..n -> InitItems] : n \in 0..MaxFeatures}

\* The user runs harness_init.py --project-dir . [--features arg] [--no-beads].
\* arg is None when the option is absent, otherwise the text given; tasks[i]
\* is what _create_beads_task returns for the i-th item.
InitCLI(arg, no_beads, tasks) ==
    /\ Count
    /\ harness' = create_harness_state(clock)
    /\ IF arg = None
       THEN /\ calls' = <<>>
            /\ last' = Op("harness_init", "exit 0")
            /\ UNCHANGED disk
       ELSE IF arg[1] = BadJson
       THEN /\ calls' = <<>>
            /\ last' = Op("harness_init", "exit 1")
            /\ UNCHANGED disk
       ELSE LET items == arg[1][1]
                m == FirstMissingId(items)
                n == IF m = 0 THEN Len(items) ELSE m - 1
                list == AddItems(FeatureList("1.0.0", EmptyStr, EmptyStr, <<>>, clock),
                                 items, tasks, 1, n)
            IN  /\ DOMAIN tasks = 1..Len(items)
                /\ \A i \in 1..Len(items) : (no_beads \/ i > n) => tasks[i] = None
                /\ calls' = IF no_beads THEN <<>>
                            ELSE [i \in 1..n |-> [cmd |-> "create", task |-> ""]]
                /\ IF m = 0
                   THEN /\ disk' = save(list, clock).file
                        /\ last' = Op("harness_init", "exit 0")
                   ELSE /\ last' = Op("harness_init", "exit 1")
                        /\ UNCHANGED disk
    /\ stdout' = <<>>
    /\ UNCHANGED <<fl, clock>>
    /\ UNCHANGED others

\* Something outside the registry API damages a loadable features.json: it
\* leaves a text that json.loads rejects (JSONDecodeError),
CorruptText ==
    /\ Count
    /\ load(disk, clock) # None
    /\ disk' = File(BadJson)
    /\ calls' = <<>>
    /\ last' = Op("corrupt", "JSONDecodeError")
    /\ stdout' = <<>>
    /\ UNCHANGED <<fl, harness, clock>>
    /\ UNCHANGED others

\* ... or with a feature object that lacks a required key (KeyError).
CorruptDropKey(i, key) ==
    /\ Count
    /\ load(disk, clock) # None
    /\ i \in 1..Len(disk[1][1].features)
    /\ key \in DOMAIN disk[1][1].features[i]
    /\ LET data == disk[1][1]
           d == data.features[i]
       IN  disk' = File(Json([data EXCEPT !.features[i] =
                                 [k \in (DOMAIN d) \ {key} |-> d[k]]]))
    /\ calls' = <<>>
    /\ last' = Op("corrupt", "KeyError")
    /\ stdout' = <<>>
    /\ UNCHANGED <<fl, harness, clock>>
    /\ UNCHANGED others

\* ... or with a status that is not a FeatureStatus value (ValueError).
CorruptStatus(i) ==
    /\ Count
    /\ load(disk, clock) # None
    /\ i \in 1..Len(disk[1][1].features)
    /\ "status" \in DOMAIN disk[1][1].features[i]
    /\ disk' = File(Json([disk[1][1] EXCEPT !.features[i]["status"] = "done"]))
    /\ calls' = <<>>
    /\ last' = Op("corrupt", "ValueError")
    /\ stdout' = <<>>
    /\ UNCHANGED <<fl, harness, clock>>
    /\ UNCHANGED others

Next ==
    \/ Tick
    \/ NewFeatureList
    \/ Load
    \/ \E id \in Ids, auto \in BOOLEAN, task \in NoTracker : AddFeature(id, auto, task)
    \/ \E id \in Ids, status \in FeatureStatus,
          output \in {None} \cup {Some(o) : o \in Outputs} :
          UpdateStatus(id, status, output)
    \/ Save
    \/ Stop
    \/ \E no_beads \in BOOLEAN : InitCLI(None, no_beads, <<>>)
    \/ \E no_beads \in BOOLEAN : InitCLI(Some(BadJson), no_beads, <<>>)
    \/ \E items \in InitLists, no_beads \in BOOLEAN :
          \E tasks \in [1..Len(items) -> NoTracker] :
             InitCLI(Some(Json(items)), no_beads, tasks)
    \/ CorruptText
    \/ \E i \in 1..MaxFeatures, key \in {"id", "description", "status"} : CorruptDropKey(i, key)
    \/ \E i \in 1..MaxFeatures : CorruptStatus(i)

Spec == Init /\ [][Next]_vars

----
\* The Stop gate on its own: the hook runs against each registry document
\* that add_feature, update_status and save can leave behind, with up to
\* MaxGateFeatures features of distinct ids, in an initialised project.

GateChoices ==
    {[status |-> s, output |-> None] : s \in FeatureStatus \ {"VERIFIED"}}
        \cup {[status |-> s, output |-> Some(o)] : s \in {"VERIFIED", "FAILED"}, o \in Outputs}

GateFeature(i, choice) ==
    Feature(GateIds[i], "d", choice.status, None, None,
            IF choice.status \in {"VERIFIED", "FAILED"} THEN Some(1) ELSE None,
            choice.output)

GateInit ==
    /\ fl = None
    /\ \E n \in 0..MaxGateFeatures :
          \E c \in [1..n -> GateChoices] :
             disk = save(FeatureList("1.0.0", EmptyStr, EmptyStr,
                                     [i \in 1..n |-> GateFeature(i, c[i])], 1), 1).file
    /\ harness = create_harness_state(1)
    /\ stdout = <<>>
    /\ clock = 1
    /\ calls = <<>>
    /\ last = Op("init", "")
    /\ ops = 0
    /\ stdin = <<>>
    /\ memories = {}
    /\ beads_dir = FALSE
    /\ procs = <<>>
    /\ bytes = 0

GateNext == Stop

SpecGate == GateInit /\ [][GateNext]_vars

----
\* The external tracker: what one run of the bd tool does to its caller.

\* The standard output of a run, as its words.
BdOutputs == {<<"Created:", "bd-1">>, <<"bd-1">>, <<"no", "task", "created">>, <<>>}

\* subprocess.run(["bd", ...], timeout=5) ends with a return code and an
\* output, or raises TimeoutExpired, or FileNotFoundError (tool missing).
\* bd close and bd update: their output is captured and never read.
BdCallRuns ==
    {[kind |-> "exit", returncode |-> c, stdout |-> <<>>] : c \in {0, 1}}
        \cup {[kind |-> "TimeoutExpired", returncode |-> 0, stdout |-> <<>>],
              [kind |-> "FileNotFoundError", returncode |-> 0, stdout |-> <<>>]}

\* bd create: the output of a successful run is parsed for the task id.
BdRuns ==
    BdCallRuns
        \cup {[kind |-> "exit", returncode |-> 0, stdout |-> o] : o \in BdOutputs}
        \cup {[kind |-> "exit", returncode |-> 1, stdout |-> <<"Created:", "bd-1">>]}

\* How a run ended, as the log of tracker calls records it.
BdEnded(run) ==
    IF run.kind # "exit" THEN run.kind
    ELSE IF run.returncode = 0 THEN "ok" ELSE "nonzero"

\* The exceptions the three helpers catch.
BdCaught == {"TimeoutExpired", "FileNotFoundError", "OSError"}

\* re.search(r"(?:Created|created):\s*(\S+)", stdout), then the output
\* itself when it is one token.
ParseTaskId(out) ==
    IF \E i \in 1..(Len(out) - 1) : out[i] \in {"Created:", "created:"}
    THEN Some(out[(CHOOSE i \in 1..(Len(out) - 1) :
                      /\ out[i] \in {"Created:", "created:"}
                      /\ \A j \in 1..(i - 1) : out[j] \notin {"Created:", "created:"}) + 1])
    ELSE IF Len(out) = 1 THEN Some(out[1])
    ELSE None

\* _create_beads_task: raised names the exception that reaches the caller
\* ("" for none), val is the task id or None.
_create_beads_task(run) ==
    IF run.kind # "exit"
    THEN IF run.kind \in BdCaught THEN [raised |-> "", val |-> None]
         ELSE [raised |-> run.kind, val |-> None]
    ELSE IF run.returncode # 0 THEN [raised |-> "", val |-> None]
    ELSE [raised |-> "", val |-> ParseTaskId(run.stdout)]

\* Mutant: a timeout of bd close is not caught.
_close_beads_task_TimeoutEscapes(run) ==
    IF run.kind # "exit"
    THEN IF run.kind \in BdCaught \ {"TimeoutExpired"} THEN [raised |-> "", val |-> FALSE]
         ELSE [raised |-> run.kind, val |-> FALSE]
    ELSE [raised |-> "", val |-> run.returncode = 0]

\* _close_beads_task.
_close_beads_task(run) ==
    IF run.kind # "exit"
    THEN IF run.kind \in BdCaught THEN [raised |-> "", val |-> FALSE]
         ELSE [raised |-> run.kind, val |-> FALSE]
    ELSE [raised |-> "", val |-> run.returncode = 0]

\* _update_beads_status.
_update_beads_status(run) ==
    IF run.kind # "exit"
    THEN IF run.kind \in BdCaught THEN [raised |-> "", val |-> FALSE]
         ELSE [raised |-> run.kind, val |-> FALSE]
    ELSE [raised |-> "", val |-> run.returncode = 0]

\* fl.add_feature(id, ...) on a machine where bd ends as run says.
AddFeatureBd(id, auto_create_beads, run) ==
    LET r == IF auto_create_beads THEN _create_beads_task(run)
             ELSE [raised |-> "", val |-> None]
    IN  IF r.raised = ""
        THEN AddFeature(id, auto_create_beads, r.val)
        ELSE /\ Count
             /\ fl # None
             /\ Len(fl[1].features) < MaxFeatures
             /\ calls' = <<[cmd |-> "create", task |-> ""]>>
             /\ last' = Op("add_feature", r.raised)
             /\ stdout' = <<>>
             /\ UNCHANGED <<fl, disk, harness, clock>>
             /\ UNCHANGED others

\* fl.update_status(id, status, output) on a machine where bd ends as run
\* says: the return values of the helpers are dropped, an exception they let
\* through reaches the caller after the feature was changed in memory. The
\* tracker runs leave verification_output at its default, None.
UpdateStatusBd(id, status, output, run) ==
    /\ Count
    /\ fl # None
    /\ LET r == update_status(fl[1], id, status, output, clock)
           raised == IF r.bd = <<>> THEN ""
                     ELSE IF r.bd[1].cmd = "close" THEN _close_beads_task(run).raised
                     ELSE _update_beads_status(run).raised
       IN  /\ fl' = Some(r.self)
           /\ calls' = [k \in 1..Len(r.bd) |->
                           [cmd |-> r.bd[k].cmd, task |-> r.bd[k].task,
                            ended |-> BdEnded(run)]]
           /\ last' = Op("update_status",
                         IF raised # "" THEN raised
                         ELSE IF r.ret THEN "True" ELSE "False")
    /\ stdout' = <<>>
    /\ UNCHANGED <<disk, harness, clock>>
    /\ UNCHANGED others

TrackerNext ==
    \/ NewFeatureList
    \/ \E id \in Ids, auto \in BOOLEAN, run \in BdRuns : AddFeatureBd(id, auto, run)
    \/ \E id \in Ids, status \in FeatureStatus, run \in BdCallRuns :
          UpdateStatusBd(id, status, None, run)
    \/ Save
    \/ Load

SpecTracker == Init /\ [][TrackerNext]_vars

----
\* The queries on their own: each runs against each registry that
\* add_feature and update_status can build, with up to MaxQueryFeatures
\* features.

QueryInit ==
    /\ \E n \in 0..MaxQueryFeatures :
          \E c \in [1..n -> GateChoices] :
             fl = Some(FeatureList("1.0.0", EmptyStr, EmptyStr,
                                   [i \in 1..n |-> GateFeature(i, c[i])], 1))
    /\ disk = NoFile
    /\ harness = NoFile
    /\ stdout = <<>>
    /\ clock = 1
    /\ calls = <<>>
    /\ last = Op("init", "")
    /\ ops = 0
    /\ stdin = <<>>
    /\ memories = {}
    /\ beads_dir = FALSE
    /\ procs = <<>>
    /\ bytes = 0

Query(op, ret) ==
    /\ last' = Op(op, ret)
    /\ UNCHANGED <<fl, disk, harness, stdout, clock, calls, ops>>
    /\ UNCHANGED others

GetNextFeature == Query("get_next_feature", get_next_feature(fl[1]))

GetSummary == Query("get_summary", get_summary(fl[1]))

AllVerified == Query("all_verified", all_verified(fl[1]))

GetUnverified == Query("get_unverified", get_unverified(fl[1]))

QueryNext ==
    \/ GetNextFeature
    \/ GetSummary
    \/ AllVerified
    \/ GetUnverified

SpecQuery == QueryInit /\ [][QueryNext]_vars

----
\* lib/bootstrap.py: the session bookkeeping on .claude/harness.json.

\* increment_session, the read: None when the file is missing or json.loads
\* raises (the function then returns 1), the parsed document otherwise.
read_harness(file) ==
    IF file = NoFile THEN None
    ELSE IF file[1] = BadJson THEN None
    ELSE Some(file[1][1])

\* Mutant: the new id is the number of sessions recorded so far.
next_session_CountOnly(doc, now) ==
    LET sessions == Get(doc, "sessions", <<>>)
        new_session_id == Len(sessions)
        appended == Append(sessions, [id |-> new_session_id, started |-> now,
                                      type |-> "coding"])
    IN  [id |-> new_session_id,
         doc |-> [k \in DOMAIN doc \cup {"sessions"} |->
                     IF k = "sessions" THEN appended ELSE doc[k]]]

\* increment_session, the update of the document read: the new id and the
\* document to write.
next_session(doc, now) ==
    LET sessions == Get(doc, "sessions", <<>>)
        new_session_id == Len(sessions) + 1
        appended == Append(sessions, [id |-> new_session_id, started |-> now,
                                      type |-> "coding"])
    IN  [id |-> new_session_id,
         doc |-> [k \in DOMAIN doc \cup {"sessions"} |->
                     IF k = "sessions" THEN appended ELSE doc[k]]]

\* increment_session run to completion: what it returns and the file after.
increment_session(file, now) ==
    LET read == read_harness(file)
    IN  IF read = None THEN [ret |-> 1, file |-> file]
        ELSE [ret |-> next_session(read[1], now).id,
              file |-> File(Json(next_session(read[1], now).doc))]

\* The sessions recorded in the harness file (none when it cannot be read).
Sessions ==
    IF read_harness(harness) = None THEN <<>>
    ELSE Get(read_harness(harness)[1], "sessions", <<>>)

\* A caller runs create_harness_state(project_dir).
CreateHarness ==
    /\ harness' = create_harness_state(clock)
    /\ last' = Op("create_harness_state", "")
    /\ UNCHANGED <<fl, disk, stdout, clock, calls, ops>>
    /\ UNCHANGED others

\* A session starts: session_bootstrap runs increment_session(cwd).
RecordSession ==
    /\ Len(Sessions) < MaxSessions
    /\ harness' = increment_session(harness, clock).file
    /\ last' = Op("increment_session", increment_session(harness, clock).ret)
    /\ UNCHANGED <<fl, disk, stdout, clock, calls, ops>>
    /\ UNCHANGED others

SessionNext ==
    \/ Tick
    \/ CreateHarness
    \/ RecordSession

SpecSession == Init /\ [][SessionNext]_vars

----
\* lib/checkpoint.py: the files a transcript mentions.

Paths == {"src/a.go", "src/b.go"}

\* One line of a message: a Write or Edit tool use with its file_path, or a
\* sentence saying that a file was created or modified. Each stands on a
\* line of its own, so no pattern matches across two of them.
Lines ==
    {[tool |-> t, path |-> p] : t \in {"Write", "Edit"}, p \in Paths}
        \cup {[tool |-> t, path |-> "src/a.go"] : t \in {"created", "modified"}}

\* str(msg.get("content", "")) of one message: up to two lines.
Messages ==
    {<<>>} \cup {<<l>> : l \in Lines} \cup {<<l, m>> : l \in Lines, m \in Lines}

\* _is_likely_file_path: an extension or a directory, no URL, not too long.
_is_likely_file_path(path) == path \in Paths

\* One "for match in pattern.finditer(content)" loop from the i-th line on:
\* every line of the pattern's tool, in order, records its path with action
\* unless the path is recorded already.
RECURSIVE Matches(_, _, _, _, _)
Matches(modified, content, i, tool, action) ==
    IF i > Len(content) THEN modified
    ELSE IF /\ content[i].tool = tool
            /\ (tool \in {"created", "modified"} => _is_likely_file_path(content[i].path))
            /\ \A k \in 1..Len(modified) : modified[k].path # content[i].path
         THEN Matches(Append(modified, [path |-> content[i].path, action |-> action]),
                      content, i + 1, tool, action)
         ELSE Matches(modified, content, i + 1, tool, action)

\* The body of "for msg in transcript": the Write loop, the Edit loop, then
\* the two loops over the sentences.
OneMessage(modified, content) ==
    Matches(Matches(Matches(Matches(modified, content, 1, "Write", "created"),
                            content, 1, "Edit", "modified"),
                    content, 1, "created", "created"),
            content, 1, "modified", "modified")

RECURSIVE ModifiedFrom(_, _, _)
ModifiedFrom(modified, transcript, m) ==
    IF m > Len(transcript) THEN modified
    ELSE ModifiedFrom(OneMessage(modified, transcript[m]), transcript, m + 1)

\* get_modified_files: the (path, action) pairs in the order the dict got them.
get_modified_files(transcript) == ModifiedFrom(<<>>, transcript, 1)

\* The extraction on its own: it runs on each transcript of up to
\* MaxMessages messages.
ExtractInit ==
    /\ \E n \in 0..MaxMessages : stdin \in [1..n -> Messages]
    /\ fl = None
    /\ disk = NoFile
    /\ harness = NoFile
    /\ stdout = <<>>
    /\ clock = 1
    /\ calls = <<>>
    /\ last = Op("init", "")
    /\ ops = 0
    /\ memories = {}
    /\ beads_dir = FALSE
    /\ procs = <<>>
    /\ bytes = 0

GetModifiedFiles ==
    /\ last' = Op("get_modified_files", get_modified_files(stdin))
    /\ UNCHANGED <<fl, disk, harness, stdout, clock, calls, ops>>
    /\ UNCHANGED others

ExtractNext == GetModifiedFiles

SpecExtract == ExtractInit /\ [][ExtractNext]_vars

----
\* lib/checkpoint.py and the two hooks that write checkpoints. Here the
\* clock counts steps of SecondsPerTick seconds.

SecondsPerTick == 30

\* The spans of time that pass between two events: half a minute, half an
\* hour, two hours.
Durations == {1, 60, 240}

\* datetime.now().strftime("%Y-%m-%d-%H%M").
Minute(now) == (now * SecondsPerTick) \div 60

\* "bd current -q" and "bd show <id>" as the hooks see them end.
BdCurrentRuns ==
    {[kind |-> "exit", returncode |-> 0, stdout |-> <<"bd-1">>],
     [kind |-> "exit", returncode |-> 0, stdout |-> <<>>],
     [kind |-> "exit", returncode |-> 1, stdout |-> <<>>],
     [kind |-> "TimeoutExpired", returncode |-> 0, stdout |-> <<>>],
     [kind |-> "FileNotFoundError", returncode |-> 0, stdout |-> <<>>]}

BdShowRuns ==
    {[kind |-> "exit", returncode |-> 0, stdout |-> <<"Title:", "t", "Status:", "in_progress">>],
     [kind |-> "exit", returncode |-> 1, stdout |-> <<>>],
     [kind |-> "TimeoutExpired", returncode |-> 0, stdout |-> <<>>]}

\* re.search(r"<label>\s*(...)", output): the word after the label, or the
\* default when the label does not occur.
AfterLabel(out, label, default) ==
    IF \E i \in 1..(Len(out) - 1) : out[i] = label
    THEN out[(CHOOSE i \in 1..(Len(out) - 1) :
                 out[i] = label /\ \A j \in 1..(i - 1) : out[j] # label) + 1]
    ELSE default

\* get_beads_current: None, or the task "bd current" names with what
\* "bd show" says about it.
get_beads_current(current, show) ==
    IF current.kind # "exit" THEN None
    ELSE IF current.returncode # 0 \/ current.stdout = <<>> THEN None
    ELSE IF show.kind # "exit" THEN None
    ELSE IF show.returncode # 0
    THEN Some([id |-> current.stdout[1], title |-> "", status |-> "unknown"])
    ELSE Some([id |-> current.stdout[1],
               title |-> AfterLabel(show.stdout, "Title:", ""),
               status |-> AfterLabel(show.stdout, "Status:", "unknown")])

\* The name of a checkpoint file: auto-checkpoint-<stamp>.md or
\* checkpoint-<stamp>.md.
CheckpointName(kind, stamp) == [kind |-> kind, stamp |-> stamp]

\* path.write_text(content) in the memories directory at time now: a file
\* of that name is replaced.
WriteFile(dir, name, content, now) ==
    {f \in dir : f.name # name} \cup {[name |-> name, mtime |-> now, content |-> content]}

\* write_auto_checkpoint: the directory afterwards and the path returned.
write_auto_checkpoint(dir, checkpoint_type, modified_files, beads_task, now) ==
    LET filename == CheckpointName("auto", Minute(now))
        content == [type |-> checkpoint_type, date |-> Minute(now),
                    task |-> beads_task, files |-> modified_files]
    IN  [memories |-> WriteFile(dir, filename, content, now), path |-> filename]

\* The files of a glob pattern whose age is below max_age_hours.
Recent(dir, kind, max_age_hours, now) ==
    {f.name : f \in {g \in dir : /\ g.name.kind = kind
                                 /\ (now - g.mtime) * SecondsPerTick < max_age_hours * 3600}}

\* Mutant: only the automatic checkpoints are looked at.
find_recent_checkpoint_AutoOnly(dir, max_age_hours, now) ==
    IF Recent(dir, "auto", max_age_hours, now) # {}
    THEN {Some(n) : n \in Recent(dir, "auto", max_age_hours, now)}
    ELSE {None}

\* find_recent_checkpoint: what it can return. glob yields the files of a
\* pattern in no defined order, so the first young enough file of the first
\* pattern that has one can be any of them.
find_recent_checkpoint(dir, max_age_hours, now) ==
    IF Recent(dir, "auto", max_age_hours, now) # {}
    THEN {Some(n) : n \in Recent(dir, "auto", max_age_hours, now)}
    ELSE IF Recent(dir, "manual", max_age_hours, now) # {}
    THEN {Some(n) : n \in Recent(dir, "manual", max_age_hours, now)}
    ELSE {None}

\* The transcripts the hooks are run with.
HookTranscripts == {<<>>, <<<<[tool |-> "Write", path |-> "src/a.go"]>>>>}

\* The number of checkpoint events a run goes through.
MaxCheckpointOps == 4

CheckpointCount ==
    /\ ops < MaxCheckpointOps
    /\ ops' = ops + 1

\* Time passes.
Elapse(d) ==
    /\ CheckpointCount
    /\ clock' = clock + d
    /\ last' = Op("elapse", "")
    /\ UNCHANGED <<fl, disk, harness, stdout, calls>>
    /\ UNCHANGED others

\* The host runs precompact-checkpoint.py.
PreCompact(transcript, current, show) ==
    /\ CheckpointCount
    /\ LET beads_task == get_beads_current(current, show)
           modified_files == get_modified_files(transcript)
           w == write_auto_checkpoint(memories, "PreCompact", modified_files,
                                      beads_task, clock)
       IN  /\ memories' = w.memories
           /\ stdout' = <<[systemMessage |-> w.path]>>
           /\ last' = Op("precompact", [recent |-> None, task |-> beads_task,
                                         path |-> Some(w.path)])
    /\ stdin' = transcript
    /\ calls' = <<>>
    /\ UNCHANGED <<fl, disk, harness, clock, beads_dir, procs, bytes>>

\* The host runs stop-auto-checkpoint.py; recent is what
\* find_recent_checkpoint returns.
StopCheckpoint(transcript, current, show) ==
    /\ CheckpointCount
    /\ \E recent \in find_recent_checkpoint(memories, 1, clock) :
       LET beads_task == get_beads_current(current, show)
           modified_files == get_modified_files(transcript)
           w == write_auto_checkpoint(memories, "SessionEnd", modified_files,
                                      beads_task, clock)
       IN  IF recent # None
           THEN /\ memories' = memories
                /\ calls' = <<>>
                /\ last' = Op("stop_checkpoint", [recent |-> recent, task |-> beads_task,
                                                   path |-> None])
           ELSE IF modified_files = <<>> /\ beads_task = None
           THEN /\ memories' = memories
                /\ calls' = <<>>
                /\ last' = Op("stop_checkpoint", [recent |-> recent, task |-> beads_task,
                                                   path |-> None])
           ELSE /\ memories' = w.memories
                /\ calls' = IF beads_task # None
                             THEN <<[cmd |-> "comments add", task |-> beads_task[1].id]>>
                             ELSE <<>>
                /\ last' = Op("stop_checkpoint", [recent |-> recent, task |-> beads_task,
                                                   path |-> Some(w.path)])
    /\ stdout' = <<allow>>
    /\ stdin' = transcript
    /\ UNCHANGED <<fl, disk, harness, clock, beads_dir, procs, bytes>>

\* The user saves a checkpoint by hand: checkpoint-<stamp>.md.
ManualCheckpoint ==
    /\ CheckpointCount
    /\ memories' = WriteFile(memories, CheckpointName("manual", Minute(clock)),
                             [type |-> "Manual", date |-> Minute(clock),
                              task |-> None, files |-> <<>>], clock)
    /\ last' = Op("manual_checkpoint", "")
    /\ stdout' = <<>>
    /\ calls' = <<>>
    /\ UNCHANGED <<fl, disk, harness, clock, stdin, beads_dir, procs, bytes>>

\* A caller runs find_recent_checkpoint(max_age_hours=1).
FindRecent ==
    /\ \E r \in find_recent_checkpoint(memories, 1, clock) :
          last' = Op("find_recent_checkpoint", r)
    /\ UNCHANGED <<fl, disk, harness, stdout, clock, calls, ops>>
    /\ UNCHANGED others

CheckpointNext ==
    \/ \E d \in Durations : Elapse(d)
    \/ \E t \in HookTranscripts, c \in BdCurrentRuns, s \in BdShowRuns : PreCompact(t, c, s)
    \/ \E t \in HookTranscripts, c \in BdCurrentRuns, s \in BdShowRuns : StopCheckpoint(t, c, s)
    \/ ManualCheckpoint
    \/ FindRecent

SpecCheckpoint == Init /\ [][CheckpointNext]_vars

----
\* pretool-beads-guard.py. A path is the sequence of its pieces, cut so that
\* every entry of ALLOWED_PATHS is one piece.

ALLOWED_PATHS ==
    {<<".claude/">>, <<"CLAUDE.md">>, <<".beads/">>, <<".gitignore">>, <<"README.md">>,
     <<"CHANGELOG.md">>, <<"docs/">>, <<".pre-commit-config.yaml">>, <<"plugin.json">>,
     <<".claude-plugin/">>}

\* allowed in file_path: allowed occurs somewhere inside file_path.
Occurs(allowed, file_path) ==
    \E i \in 0..(Len(file_path) - Len(allowed)) :
        SubSeq(file_path, i + 1, i + Len(allowed)) = allowed

is_allowed_path(file_path) == \E allowed \in ALLOWED_PATHS : Occurs(allowed, file_path)

is_workflow_active(harnessFile, beadsDir) ==
    IF is_harness_initialized(harnessFile) THEN TRUE
    ELSE IF beadsDir THEN TRUE
    ELSE FALSE

\* "bd list --status in_progress --json" as the guard sees it end; stdout is
\* text that json.loads reads as a list of tasks, or that it rejects.
BdListRuns ==
    {[kind |-> "exit", returncode |-> 0, stdout |-> Json(<<>>)],
     [kind |-> "exit", returncode |-> 0, stdout |-> Json(<<[id |-> "bd-1"]>>)],
     [kind |-> "exit", returncode |-> 0, stdout |-> Json(<<[id |-> "bd-1"], [id |-> "bd-2"]>>)],
     [kind |-> "exit", returncode |-> 0, stdout |-> BadJson],
     [kind |-> "exit", returncode |-> 1, stdout |-> BadJson],
     [kind |-> "exit", returncode |-> 1, stdout |-> Json(<<[id |-> "bd-1"]>>)],
     [kind |-> "TimeoutExpired", returncode |-> 0, stdout |-> BadJson],
     [kind |-> "FileNotFoundError", returncode |-> 0, stdout |-> BadJson]}

\* Mutant: a query that times out counts as an active task.
has_active_beads_task_TimeoutPasses(run) ==
    IF run.kind = "TimeoutExpired" THEN [has_task |-> TRUE, error |-> None]
    ELSE IF run.kind = "FileNotFoundError"
    THEN [has_task |-> FALSE, error |-> Some("bd command not found")]
    ELSE IF run.returncode # 0
    THEN [has_task |-> FALSE, error |-> Some("bd command failed")]
    ELSE IF run.stdout = BadJson
    THEN [has_task |-> FALSE, error |-> Some("bd returned invalid JSON")]
    ELSE [has_task |-> Len(run.stdout[1]) > 0, error |-> None]

\* has_active_beads_task: (has_task, error).
has_active_beads_task(run) ==
    IF run.kind = "TimeoutExpired"
    THEN [has_task |-> FALSE, error |-> Some("bd command timed out")]
    ELSE IF run.kind = "FileNotFoundError"
    THEN [has_task |-> FALSE, error |-> Some("bd command not found")]
    ELSE IF run.returncode # 0
    THEN [has_task |-> FALSE, error |-> Some("bd command failed")]
    ELSE IF run.stdout = BadJson
    THEN [has_task |-> FALSE, error |-> Some("bd returned invalid JSON")]
    ELSE [has_task |-> Len(run.stdout[1]) > 0, error |-> None]

\* lib/response.py of the skillbox plugin: allow(event) and block(reason, event).
pretool_allow == [decision |-> "allow", reason |-> "", event |-> "PreToolUse"]

pretool_block(reason) == [decision |-> "block", reason |-> reason, event |-> "PreToolUse"]

\* main: what the guard prints for the text on its stdin, and whether it
\* asked the tracker.
GuardMain(text, harnessFile, beadsDir, run) ==
    IF text = BadJson THEN [out |-> pretool_allow, asked |-> FALSE]
    ELSE LET data == text[1]
             tool_name == Get(data, "tool_name", "")
             tool_input == Get(data, "tool_input", [content |-> ""])
             file_path == Get(tool_input, "file_path", <<>>)
             task == has_active_beads_task(run)
         IN  IF tool_name \notin {"Write", "Edit"} THEN [out |-> pretool_allow, asked |-> FALSE]
             ELSE IF ~ is_workflow_active(harnessFile, beadsDir)
             THEN [out |-> pretool_allow, asked |-> FALSE]
             ELSE IF is_allowed_path(file_path) THEN [out |-> pretool_allow, asked |-> FALSE]
             ELSE IF task.has_task THEN [out |-> pretool_allow, asked |-> TRUE]
             ELSE IF task.error # None
             THEN [out |-> pretool_block(<<"Cannot verify beads task status", task.error[1]>>),
                   asked |-> TRUE]
             ELSE [out |-> pretool_block(<<"No active beads task">>), asked |-> TRUE]

\* The file paths and the events the guard is run with.
GuardPaths ==
    {<<"src/", "a.go">>, <<"docs/", "x.md">>, <<"src/", "docs/", "x.go">>, <<"README.md">>,
     <<"src/", "README.md", ".bak">>, <<".claude/", "harness.json">>, <<>>}

GuardEvents ==
    {BadJson}
    \cup {Json([hook_event_name |-> "PreToolUse", tool_input |-> [content |-> ""]])}
    \cup {Json([hook_event_name |-> "PreToolUse", tool_name |-> t,
                tool_input |-> [content |-> ""]]) : t \in {"Write", "Edit"}}
    \cup {Json([hook_event_name |-> "PreToolUse", tool_name |-> t,
                tool_input |-> [content |-> "", file_path |-> p]]) :
             t \in {"Write", "Edit", "Read"}, p \in GuardPaths}

GuardInit ==
    /\ fl = None
    /\ disk = NoFile
    /\ harness \in {NoFile, create_harness_state(1)}
    /\ beads_dir \in BOOLEAN
    /\ stdin \in GuardEvents
    /\ stdout = <<>>
    /\ clock = 1
    /\ calls = <<>>
    /\ last = Op("init", "")
    /\ ops = 0
    /\ memories = {}
    /\ procs = <<>>
    /\ bytes = 0

\* The host runs the guard before a tool use.
PretoolGuard(run) ==
    /\ LET g == GuardMain(stdin, harness, beads_dir, run)
       IN  /\ stdout' = <<g.out>>
           /\ calls' = IF g.asked THEN <<run>> ELSE <<>>
    /\ last' = Op("pretool_guard", "")
    /\ UNCHANGED <<fl, disk, harness, clock, ops, stdin, memories, beads_dir, procs, bytes>>

GuardNext == \E run \in BdListRuns : PretoolGuard(run)

SpecGuard == GuardInit /\ [][GuardNext]_vars

----
\* Two sessions start in the same project at once. write_text opens the file
\* with truncation and then writes the text: between the two the file is
\* empty.

Procs == {1, 2}

Idle == [pc |-> "idle", doc |-> None, ret |-> 0]

RaceInit ==
    /\ fl = None
    /\ disk = NoFile
    /\ harness = create_harness_state(1)
    /\ stdout = <<>>
    /\ clock = 1
    /\ calls = <<>>
    /\ last = Op("init", "")
    /\ ops = 0
    /\ stdin = <<>>
    /\ memories = {}
    /\ beads_dir = FALSE
    /\ procs = [p \in Procs |-> Idle]
    /\ bytes = 0

\* Process p starts a session: increment_session reads the document and
\* computes the one to write, or returns 1 when there is nothing to read.
SessionRead(p) ==
    /\ procs[p].pc \in {"idle", "done"}
    /\ Count
    /\ is_harness_initialized(harness)
    /\ LET read == read_harness(harness)
       IN  procs' = [procs EXCEPT ![p] =
                        IF read = None THEN [pc |-> "done", doc |-> None, ret |-> 1]
                        ELSE [pc |-> "write",
                              doc |-> Some(next_session(read[1], clock).doc),
                              ret |-> next_session(read[1], clock).id]]
    /\ last' = Op("read", p)
    /\ UNCHANGED <<fl, disk, harness, stdout, clock, calls, stdin, memories, beads_dir, bytes>>

\* write_text, first half: the file is opened and truncated.
SessionOpen(p) ==
    /\ procs[p].pc = "write"
    /\ harness' = File(BadJson)
    /\ procs' = [procs EXCEPT ![p].pc = "opened"]
    /\ last' = Op("open", p)
    /\ UNCHANGED <<fl, disk, stdout, clock, calls, ops, stdin, memories, beads_dir, bytes>>

\* write_text, second half: the text is written and increment_session
\* returns the new id. Two documents in flight at once were computed from
\* the same document read and have the same length.
SessionWrite(p) ==
    /\ procs[p].pc = "opened"
    /\ harness' = File(Json(procs[p].doc[1]))
    /\ procs' = [procs EXCEPT ![p].pc = "done"]
    /\ last' = Op("write", p)
    /\ UNCHANGED <<fl, disk, stdout, clock, calls, ops, stdin, memories, beads_dir, bytes>>

SessionRaceNext ==
    \/ Tick
    \/ \E p \in Procs : SessionRead(p)
    \/ \E p \in Procs : SessionOpen(p)
    \/ \E p \in Procs : SessionWrite(p)

SpecSessionRace == RaceInit /\ [][SessionRaceNext]_vars

----
\* Two sessions update the registry at once. save ends in path.write_text:
\* the file is opened with truncation, and the text is then written from
\* offset 0 through the writer's own handle.

\* len(json.dumps(data, indent=2)) of a feature and of a document; a
\* timestamp is an isoformat string of 26 characters.
FeatureTextLen(d) ==
    189 + Len(d.id) + Len(d.description) + Len(d.status)
        + (IF d.verification = None THEN 0 ELSE Len(d.verification[1]) - 2)
        + (IF d.beads_id = None THEN 0 ELSE Len(d.beads_id[1]) - 2)
        + (IF d.last_verified = None THEN 0 ELSE 24)
        + (IF d.verification_output = None THEN 0 ELSE Len(d.verification_output[1]) - 2)

RECURSIVE FeaturesTextLen(_, _)
FeaturesTextLen(dicts, i) ==
    IF i > Len(dicts) THEN 0
    ELSE FeatureTextLen(dicts[i]) + FeaturesTextLen(dicts, i + 1)

TextLen(data) ==
    IF data.features = <<>> THEN 128
    ELSE 130 + FeaturesTextLen(data.features, 1)

\* The statuses of the two features in the registry the sessions start from.
StartStatuses == {"PENDING", "IMPLEMENTED"}

Ready == [pc |-> "idle", fl |-> None, doc |-> None, before |-> NoFile]

RegistryRaceInit ==
    /\ fl = None
    /\ \E s1 \in StartStatuses, s2 \in StartStatuses :
          disk = save(FeatureList("1.0.0", 1, 1,
                                  <<Feature("a", "d", s1, None, None, None, None),
                                    Feature("b", "d", s2, None, None, None, None)>>, 1),
                      1).file
    /\ bytes = TextLen(disk[1][1])
    /\ harness = create_harness_state(1)
    /\ stdout = <<>>
    /\ clock = 1
    /\ calls = <<>>
    /\ last = Op("init", "")
    /\ ops = 0
    /\ stdin = <<>>
    /\ memories = {}
    /\ beads_dir = FALSE
    /\ procs = [p \in Procs |-> Ready]

\* Session p runs load_features; without a registry it has nothing to
\* update and ends.
RegistryLoad(p) ==
    /\ procs[p].pc = "idle"
    /\ procs' = [procs EXCEPT ![p].fl = load(disk, clock),
                              ![p].pc = IF load(disk, clock) = None THEN "done" ELSE "loaded"]
    /\ last' = Op("load", p)
    /\ stdout' = <<>>
    /\ calls' = <<>>
    /\ UNCHANGED <<fl, disk, harness, clock, ops, stdin, memories, beads_dir, bytes>>

\* Session p runs update_status on the object it loaded.
RegistryUpdate(p, id, status) ==
    /\ procs[p].pc = "loaded"
    /\ LET r == update_status(procs[p].fl[1], id, status, None, clock)
       IN  /\ procs' = [procs EXCEPT ![p].fl = Some(r.self), ![p].pc = "updated"]
           /\ calls' = r.bd
    /\ last' = Op("update_status", p)
    /\ stdout' = <<>>
    /\ UNCHANGED <<fl, disk, harness, clock, ops, stdin, memories, beads_dir, bytes>>

\* Session p runs save up to the open inside write_text: the document is
\* built and the file is truncated.
RegistryOpen(p) ==
    /\ procs[p].pc = "updated"
    /\ LET r == save(procs[p].fl[1], clock)
       IN  procs' = [procs EXCEPT ![p].fl = Some(r.self),
                                  ![p].doc = Some(r.file[1][1]),
                                  ![p].before = disk,
                                  ![p].pc = "opened"]
    /\ disk' = File(BadJson)
    /\ bytes' = 0
    /\ last' = Op("open", p)
    /\ stdout' = <<>>
    /\ calls' = <<>>
    /\ UNCHANGED <<fl, harness, clock, ops, stdin, memories, beads_dir>>

\* write_text writes the text from offset 0: whatever another writer left
\* beyond its end stays in the file.
RegistryWrite(p) ==
    /\ procs[p].pc = "opened"
    /\ LET n == TextLen(procs[p].doc[1])
       IN  /\ disk' = IF n >= bytes THEN File(Json(procs[p].doc[1])) ELSE File(BadJson)
           /\ bytes' = IF n >= bytes THEN n ELSE bytes
    /\ procs' = [procs EXCEPT ![p].pc = "done"]
    /\ last' = Op("write", p)
    /\ stdout' = <<>>
    /\ calls' = <<>>
    /\ UNCHANGED <<fl, harness, clock, ops, stdin, memories, beads_dir>>

RegistryRaceNext ==
    \/ Tick
    \/ Stop
    \/ \E p \in Procs : RegistryLoad(p)
    \/ \E p \in Procs, id \in Ids, status \in FeatureStatus : RegistryUpdate(p, id, status)
    \/ \E p \in Procs : RegistryOpen(p)
    \/ \E p \in Procs : RegistryWrite(p)

SpecRegistryRace == RegistryRaceInit /\ [][RegistryRaceNext]_vars

----
\* What the claims speak about, read off the files and the hook's output.

Stopped == last.op = "stop"

HarnessInitialized == harness # NoFile

RequiredKeys == {"id", "description", "status"}

KnownStatus == {"pending", "in_progress", "implemented", "verified", "failed"}

\* The feature objects of the registry document, as written in the file.
PersistedDicts ==
    IF disk = NoFile \/ disk[1] = BadJson THEN <<>> ELSE disk[1][1].features

RegistryLoadable ==
    /\ disk # NoFile
    /\ disk[1] # BadJson
    /\ \A i \in 1..Len(PersistedDicts) :
          /\ RequiredKeys \subseteq DOMAIN PersistedDicts[i]
          /\ PersistedDicts[i].status \in KnownStatus

IdsOf(s) == [k \in 1..Len(s) |-> s[k].id]

\* The ids of the persisted features with that status, in registry order.
PersistedIdsWith(status) ==
    IdsOf(SelectSeq(PersistedDicts, LAMBDA d : d.status = status))

FirstN(s, n) == [k \in 1..(IF Len(s) < n THEN Len(s) ELSE n) |-> s[k]]

Range(s) == {s[k] : k \in 1..Len(s)}

Allowed == Len(stdout) = 1 /\ stdout[1].decision = "allow"

Blocked == Len(stdout) = 1 /\ stdout[1].decision = "block"

----
\* C1: after a stop attempt in an initialised project whose registry loads
\* and holds n >= 1 implemented features, the hook has printed one block and
\* the block lists the ids of the first min(n, 5) implemented features in
\* registry order.
C1_BlockNamesFirstFiveImplemented ==
    (Stopped /\ HarnessInitialized /\ RegistryLoadable
        /\ PersistedIdsWith("implemented") # <<>>)
    => /\ Blocked
       /\ IdsOf(stdout[1].named) = FirstN(PersistedIdsWith("implemented"), 5)

\* A stop attempt blocked on more than five implemented features, five listed.
C1_Witness ==
    /\ Stopped
    /\ Blocked
    /\ Len(PersistedIdsWith("implemented")) > 5
    /\ Len(stdout[1].named) = 5

\* C2: after a stop attempt in an initialised project whose registry loads,
\* holds no implemented feature and at least one failed feature, the hook has
\* printed one block and the block lists the ids of the first min(n, 3)
\* failed features in registry order.
C2_BlockNamesFirstThreeFailed ==
    (Stopped /\ HarnessInitialized /\ RegistryLoadable
        /\ PersistedIdsWith("implemented") = <<>>
        /\ PersistedIdsWith("failed") # <<>>)
    => /\ Blocked
       /\ IdsOf(stdout[1].named) = FirstN(PersistedIdsWith("failed"), 3)

\* A stop attempt blocked on more than three failed features, three listed.
C2_Witness ==
    /\ Stopped
    /\ Blocked
    /\ PersistedIdsWith("implemented") = <<>>
    /\ Len(PersistedIdsWith("failed")) > 3
    /\ Len(stdout[1].named) = 3

\* C3: every stop attempt prints exactly one decision, allow or block; a
\* block lists features of one class only (all implemented or all failed);
\* and when the registry holds both implemented and failed features the
\* block is the one for unverified features and lists no failed feature.
C3_OneDecisionOneClass ==
    Stopped =>
        /\ Len(stdout) = 1
        /\ stdout[1].decision \in {"allow", "block"}
        /\ stdout[1].decision = "block" =>
              \/ Range(IdsOf(stdout[1].named)) \subseteq Range(PersistedIdsWith("implemented"))
              \/ Range(IdsOf(stdout[1].named)) \subseteq Range(PersistedIdsWith("failed"))
        /\ (HarnessInitialized /\ RegistryLoadable
               /\ PersistedIdsWith("implemented") # <<>>
               /\ PersistedIdsWith("failed") # <<>>)
           => /\ stdout[1].decision = "block"
              /\ stdout[1].reason = "Unverified features detected"
              /\ Range(IdsOf(stdout[1].named)) \subseteq Range(PersistedIdsWith("implemented"))
              /\ Range(IdsOf(stdout[1].named)) \cap Range(PersistedIdsWith("failed")) = {}

\* A stop attempt on a registry that holds both classes, blocked.
C3_Witness ==
    /\ Stopped
    /\ Blocked
    /\ PersistedIdsWith("implemented") # <<>>
    /\ PersistedIdsWith("failed") # <<>>

\* C4: after a stop attempt in a project without harness.json the hook has
\* printed allow, whatever features.json holds.
C4_NoHarnessAllows ==
    (Stopped /\ ~ HarnessInitialized) => Allowed

\* A stop attempt allowed without harness.json although the registry loads
\* and holds an implemented or failed feature.
C4_Witness ==
    /\ Stopped
    /\ ~ HarnessInitialized
    /\ RegistryLoadable
    /\ PersistedIdsWith("implemented") \o PersistedIdsWith("failed") # <<>>
    /\ Allowed

\* C5: after a stop attempt in an initialised project whose features.json is
\* absent, is not JSON, has a feature without a required key or has a feature
\* with an unknown status, the hook has printed allow.
C5_FailOpen ==
    (Stopped /\ HarnessInitialized /\ ~ RegistryLoadable) => Allowed

\* A stop attempt allowed on a registry that parses as JSON, cannot be loaded
\* and holds a feature written as implemented.
C5_Witness ==
    /\ Stopped
    /\ HarnessInitialized
    /\ disk # NoFile
    /\ disk[1] # BadJson
    /\ ~ RegistryLoadable
    /\ \E i \in 1..Len(PersistedDicts) :
          Get(PersistedDicts[i], "status", "") = "implemented"
    /\ Allowed

\* C6: after a stop attempt in an initialised project whose registry loads,
\* the hook has printed allow if and only if no persisted feature has status
\* implemented or failed.
C6_AllowIffNothingOutstanding ==
    (Stopped /\ HarnessInitialized /\ RegistryLoadable)
    => /\ Len(stdout) = 1
       /\ stdout[1].decision = "allow"
            <=> \A i \in 1..Len(PersistedDicts) :
                   PersistedDicts[i].status \notin {"implemented", "failed"}

\* A stop attempt allowed on a saved registry whose feature was verified by
\* update_status.
C6_Witness ==
    /\ Stopped
    /\ HarnessInitialized
    /\ RegistryLoadable
    /\ Allowed
    /\ \E i \in 1..Len(PersistedDicts) :
          /\ PersistedDicts[i].status = "verified"
          /\ PersistedDicts[i].last_verified # None

HasId(list, id) == \E i \in 1..Len(list.features) : list.features[i].id = id

\* C7: a step of add_feature(id, ...) on a registry that already holds id
\* fails with a duplicate-id error and leaves the registry as it was; on a
\* registry that does not hold id it appends one feature, with that id and
\* status pending, at the end.
C7_AddRejectsDuplicateId ==
    [][\A id \in Ids :
          (\E auto \in BOOLEAN, task \in Tasks : AddFeature(id, auto, task))
          => IF HasId(fl[1], id)
             THEN /\ fl' = fl
                  /\ last'.ret = "DuplicateIdError"
             ELSE /\ Len(fl'[1].features) = Len(fl[1].features) + 1
                  /\ SubSeq(fl'[1].features, 1, Len(fl[1].features)) = fl[1].features
                  /\ fl'[1].features[Len(fl'[1].features)].id = id
                  /\ fl'[1].features[Len(fl'[1].features)].status = "PENDING"]_vars

\* C8: no two features of the registry share an id, in memory or in the file.
C8_UniqueIds ==
    /\ fl # None =>
          \A i, j \in 1..Len(fl[1].features) :
             fl[1].features[i].id = fl[1].features[j].id => i = j
    /\ \A i, j \in 1..Len(PersistedDicts) :
          ("id" \in DOMAIN PersistedDicts[i] /\ "id" \in DOMAIN PersistedDicts[j]
              /\ PersistedDicts[i].id = PersistedDicts[j].id) => i = j

\* C9: a step of update_status(id, status, output) on a registry that holds
\* id gives the feature the requested status; if the status is verified or
\* failed the feature then has both last_verified and verification_output;
\* for any other status both fields are as they were.
C9_UpdateSetsBothTogether ==
    [][\A id \in Ids, status \in FeatureStatus, output \in {None} \cup {Some(o) : o \in Outputs} :
          (UpdateStatus(id, status, output) /\ HasId(fl[1], id))
          => LET i == get_feature(fl[1], id)
                 before == fl[1].features[i]
                 after == fl'[1].features[i]
             IN  /\ after.status = status
                 /\ IF status \in {"VERIFIED", "FAILED"}
                    THEN after.last_verified # None /\ after.verification_output # None
                    ELSE /\ after.last_verified = before.last_verified
                         /\ after.verification_output = before.verification_output]_vars

\* C10: every feature of the registry has last_verified and
\* verification_output both absent or both present.
C10_BothOrNeither ==
    fl # None =>
        \A i \in 1..Len(fl[1].features) :
            (fl[1].features[i].last_verified = None)
                <=> (fl[1].features[i].verification_output = None)

----
\* Claims about update_status, the tracker, save and load.

\* The i-th feature is the one get_feature resolves id to.
IsFirstWithId(list, i, id) ==
    /\ list.features[i].id = id
    /\ \A j \in 1..(i - 1) : list.features[j].id # id

\* The step is add_feature, update_status or save on the FeatureList object
\* the caller already held.
SameObject ==
    /\ fl # None
    /\ fl' # None
    /\ last'.op \in {"add_feature", "update_status", "save"}

\* C11: a step of update_status with an id the registry does not hold
\* returns False (no exception), issues no tracker call and leaves the
\* registry, in memory and in the file, as it was.
C11_UnknownIdIsNoOp ==
    [][\A id \in Ids :
          (fl # None /\ ~ HasId(fl[1], id)) =>
             \A status \in FeatureStatus, run \in BdCallRuns :
                UpdateStatusBd(id, status, None, run)
                => /\ last'.ret = "False"
                   /\ calls' = <<>>
                   /\ fl' = fl
                   /\ disk' = disk]_vars

C11_Witness ==
    /\ last = Op("update_status", "False")
    /\ fl # None
    /\ calls = <<>>
    /\ \E i \in 1..Len(fl[1].features) :
          /\ fl[1].features[i].beads_id # None
          /\ fl[1].features[i].status = "PENDING"

\* C12 as stated: a feature that is verified is still verified after any
\* add_feature, update_status or save on the registry.
C12_VerifiedIsTerminal ==
    [][SameObject =>
          \A i \in 1..Len(fl[1].features) :
             fl[1].features[i].status = "VERIFIED"
                => fl'[1].features[i].status = "VERIFIED"]_vars

\* C12 amended: a verified feature is still verified after add_feature and
\* save, and after update_status unless that call names the feature (its id
\* resolves to it); update_status itself accepts any target status.
C12_VerifiedLeftOnlyByItsOwnUpdate ==
    [][/\ (SameObject /\ last'.op # "update_status") =>
             \A i \in 1..Len(fl[1].features) :
                fl[1].features[i].status = "VERIFIED"
                   => fl'[1].features[i].status = "VERIFIED"
       /\ \A i \in 1..(IF fl = None THEN 0 ELSE Len(fl[1].features)) :
             (last'.op = "update_status" /\ fl[1].features[i].status = "VERIFIED"
                 /\ fl'[1].features[i].status # "VERIFIED") =>
                \A id \in Ids, status \in FeatureStatus, run \in BdCallRuns :
                   UpdateStatusBd(id, status, None, run) => IsFirstWithId(fl[1], i, id)]_vars

C12_Witness ==
    /\ last = Op("update_status", "True")
    /\ Len(calls) = 1
    /\ calls[1].cmd = "update"
    /\ \E i \in 1..Len(fl[1].features) :
          /\ fl[1].features[i].status = "VERIFIED"
          /\ fl[1].features[i].beads_id = None

\* What a save step keeps of the object it is called on.
SaveKeepsContent ==
    /\ fl'[1].features = fl[1].features
    /\ fl'[1].version = fl[1].version
    /\ fl'[1].created = fl[1].created
    /\ \A i \in 1..Len(fl[1].features) :
          PersistedDicts'[i].status = StatusValue[fl[1].features[i].status]

C14_CorruptToldApartFromMissing ==
    (last.op = "load" /\ disk # NoFile /\ ~ RegistryLoadable) => last.ret # "None"

\* The tracker gave no task id.
NoTaskId(run) ==
    \/ run.kind # "exit"
    \/ run.returncode # 0
    \/ run.stdout \in {<<>>, <<"no", "task", "created">>}

\* C15: however the bd run ends, update_status returns True exactly when
\* the id is known and then the feature has the requested status, and
\* add_feature returns a pending feature appended to the registry, without
\* an external task id when the tracker gave none; no exception reaches the
\* caller.
C15_TrackerIndependent ==
    [][/\ last'.op = "update_status" =>
          \A id \in Ids, status \in FeatureStatus, run \in BdCallRuns :
             UpdateStatusBd(id, status, None, run) =>
                /\ last'.ret = (IF HasId(fl[1], id) THEN "True" ELSE "False")
                /\ \A i \in 1..Len(fl[1].features) :
                      IsFirstWithId(fl[1], i, id) => fl'[1].features[i].status = status
       /\ last'.op = "add_feature" =>
          \A id \in Ids, auto \in BOOLEAN, run \in BdRuns :
             AddFeatureBd(id, auto, run) =>
                /\ last'.ret = "Feature"
                /\ Len(fl'[1].features) = Len(fl[1].features) + 1
                /\ fl'[1].features[Len(fl'[1].features)].status = "PENDING"
                /\ (auto /\ NoTaskId(run)) =>
                      fl'[1].features[Len(fl'[1].features)].beads_id = None]_vars

C15_Witness ==
    /\ last = Op("update_status", "True")
    /\ Len(calls) = 1
    /\ calls[1].cmd = "close"
    /\ calls[1].ended = "TimeoutExpired"
    /\ \E i \in 1..Len(fl[1].features) :
          /\ fl[1].features[i].status = "VERIFIED"
          /\ fl[1].features[i].beads_id = Some(calls[1].task)

\* C16: update_status and save leave the external task id of every feature
\* as it is, add_feature leaves those of the features already there, and a
\* load right after a save returns the same ids.
C16_TaskIdSetOnce ==
    [][/\ SameObject =>
             \A i \in 1..Len(fl[1].features) :
                fl'[1].features[i].beads_id = fl[1].features[i].beads_id
       /\ Save =>
             \A i \in 1..Len(fl[1].features) :
                PersistedDicts'[i].beads_id = fl[1].features[i].beads_id
       /\ (last.op = "save" /\ Load) =>
             /\ fl' # None
             /\ Len(fl'[1].features) = Len(fl[1].features)
             /\ \A i \in 1..Len(fl[1].features) :
                   fl'[1].features[i].beads_id = fl[1].features[i].beads_id]_vars

C16_Witness ==
    /\ last = Op("load", "FeatureList")
    /\ fl # None
    /\ \E i \in 1..Len(fl[1].features) :
          /\ fl[1].features[i].beads_id # None
          /\ fl[1].features[i].status = "VERIFIED"

\* C17: when update_status has called the tracker for a task (close for
\* verified, update for in_progress), the registry file already holds the
\* feature of that task with the new status.
C17_CommitBeforeNotify ==
    (last.op = "update_status" /\ calls # <<>>) =>
        /\ RegistryLoadable
        /\ \E i \in 1..Len(PersistedDicts) :
              /\ PersistedDicts[i].beads_id = Some(calls[1].task)
              /\ PersistedDicts[i].status =
                    (IF calls[1].cmd = "close" THEN "verified" ELSE "in_progress")

----
\* Claims about the queries.

\* Some feature of the registry has the status.
Has(status) == \E i \in 1..Len(fl[1].features) : fl[1].features[i].status = status

\* The index of the first feature, in registry order, with the status.
FirstWith(status) ==
    CHOOSE i \in 1..Len(fl[1].features) :
       /\ fl[1].features[i].status = status
       /\ \A j \in 1..(i - 1) : fl[1].features[j].status # status

\* C18: get_next_feature returns the first in_progress feature if there is
\* one, otherwise the first pending one, otherwise the first implemented
\* one, otherwise None.
C18_NextByPriority ==
    last.op = "get_next_feature" =>
        last.ret = (IF Has("IN_PROGRESS") THEN FirstWith("IN_PROGRESS")
                    ELSE IF Has("PENDING") THEN FirstWith("PENDING")
                    ELSE IF Has("IMPLEMENTED") THEN FirstWith("IMPLEMENTED")
                    ELSE 0)

C18_Witness ==
    /\ last.op = "get_next_feature"
    /\ Len(fl[1].features) >= 3
    /\ fl[1].features[1].status = "IMPLEMENTED"
    /\ fl[1].features[2].status = "PENDING"
    /\ last.ret = 3
    /\ fl[1].features[3].status = "IN_PROGRESS"

\* C19: get_summary has exactly the five status keys, a count of zero for a
\* status no feature has, and counts that sum to the number of features.
C19_SummaryFiveKeysSumToLen ==
    last.op = "get_summary" =>
        /\ DOMAIN last.ret = KnownStatus
        /\ \A v \in KnownStatus : last.ret[v] \in Nat
        /\ \A s \in FeatureStatus : (~ Has(s)) => last.ret[StatusValue[s]] = 0
        /\ last.ret["pending"] + last.ret["in_progress"] + last.ret["implemented"]
              + last.ret["verified"] + last.ret["failed"] = Len(fl[1].features)

C19_Witness ==
    /\ last.op = "get_summary"
    /\ Len(fl[1].features) >= 3
    /\ last.ret["verified"] >= 2
    /\ last.ret["failed"] = 1
    /\ last.ret["pending"] = 0

\* C20: all_verified is true for the empty registry and for a registry
\* whose features are all verified, false otherwise; it is true exactly
\* when get_unverified is empty.
C20_AllVerifiedIffNoneUnverified ==
    last.op = "all_verified" =>
        /\ last.ret = (fl[1].features = <<>> \/ (\A s \in FeatureStatus \ {"VERIFIED"} : ~ Has(s)))
        /\ last.ret = (get_unverified(fl[1]) = <<>>)

C20_Witness ==
    /\ last.op = "all_verified"
    /\ fl[1].features = <<>>
    /\ last.ret = TRUE

----
\* Claims about the harness-state document.

\* C21: a step of increment_session on a document holding n sessions appends
\* one session of type coding with id n+1, returns n+1 and leaves the
\* earlier records and the other keys as they were; without a document it
\* returns 1 and writes nothing.
C21_RecordSessionAppendsNext ==
    [][(last'.op = "increment_session" /\ RecordSession) =>
          IF harness = NoFile
          THEN /\ last'.ret = 1
               /\ harness' = NoFile
          ELSE LET n == Len(Sessions)
               IN  /\ last'.ret = n + 1
                   /\ Len(Sessions') = n + 1
                   /\ SubSeq(Sessions', 1, n) = Sessions
                   /\ Sessions'[n + 1].id = n + 1
                   /\ Sessions'[n + 1].type = "coding"
                   /\ \A k \in DOMAIN harness[1][1] \ {"sessions"} :
                         harness'[1][1][k] = harness[1][1][k]]_vars

C21_Witness ==
    /\ last.op = "increment_session"
    /\ last.ret = 3
    /\ Len(Sessions) = 3
    /\ Sessions[3].type = "coding"

\* C22: the session list of the harness document is never empty, its first
\* record has type initializer, every later one has type coding, and the
\* i-th record has id i.
C22_SessionListWellFormed ==
    harness # NoFile =>
        /\ Sessions # <<>>
        /\ \A i \in 1..Len(Sessions) :
              /\ Sessions[i].id = i
              /\ Sessions[i].type = (IF i = 1 THEN "initializer" ELSE "coding")

C22_Witness ==
    /\ last.op = "increment_session"
    /\ Len(Sessions) = 2
    /\ Sessions[1].type = "initializer"
    /\ Sessions[1].started < Sessions[2].started

----
\* Claims about the files a transcript mentions.

\* The lines of the transcript, in the order they occur.
RECURSIVE Flatten(_, _)
Flatten(transcript, m) ==
    IF m > Len(transcript) THEN <<>>
    ELSE transcript[m] \o Flatten(transcript, m + 1)

\* The action a line stands for.
ActionOf(line) == IF line.tool \in {"Write", "created"} THEN "created" ELSE "modified"

\* The transcript holds Write and Edit tool uses only.
ToolUsesOnly ==
    \A k \in 1..Len(Flatten(stdin, 1)) : Flatten(stdin, 1)[k].tool \in {"Write", "Edit"}

\* C25: for a transcript of Write and Edit tool uses, get_modified_files
\* returns each path of the transcript exactly once, with the action of the
\* path's first occurrence in the transcript (created for a Write, modified
\* for an Edit), whatever follows in the same or a later message.
C25_FirstSeenWins ==
    (last.op = "get_modified_files" /\ ToolUsesOnly) =>
        LET all == Flatten(stdin, 1)
        IN  /\ \A i, j \in 1..Len(last.ret) :
                  last.ret[i].path = last.ret[j].path => i = j
            /\ {last.ret[i].path : i \in 1..Len(last.ret)}
                  = {all[k].path : k \in 1..Len(all)}
            /\ \A i \in 1..Len(last.ret) :
                  \E k \in 1..Len(all) :
                     /\ all[k].path = last.ret[i].path
                     /\ \A j \in 1..(k - 1) : all[j].path # last.ret[i].path
                     /\ last.ret[i].action = ActionOf(all[k])

\* The checkpoint files younger than an hour at time now.
Young(dir, now) == {f \in dir : (now - f.mtime) * SecondsPerTick < 3600}

\* This step is a hook writing a checkpoint.
WritesCheckpoint ==
    /\ last'.op \in {"precompact", "stop_checkpoint"}
    /\ ops' # ops
    /\ clock' = clock
    /\ last'.ret.path # None

\* C23: every checkpoint write adds one file under a name no earlier file
\* has, and every file written before is still there with the content and
\* the modification time it had.
C23_CheckpointsAppendOnly ==
    [][WritesCheckpoint =>
          /\ memories \subseteq memories'
          /\ Cardinality(memories') = Cardinality(memories) + 1
          /\ \A f \in memories : f.name # last'.ret.path[1]]_vars

\* C24: find_recent_checkpoint(1) returns none exactly when no checkpoint,
\* automatic or manual, is younger than an hour, and otherwise returns the
\* checkpoint modified last.
C24_FindRecentIsMostRecent ==
    last.op = "find_recent_checkpoint" =>
        IF Young(memories, clock) = {}
        THEN last.ret = None
        ELSE /\ last.ret # None
             /\ \E f \in Young(memories, clock) :
                   /\ f.name = last.ret[1]
                   /\ \A g \in memories : g.mtime <= f.mtime

QueryVerified ==
    /\ calls[1].kind = "exit"
    /\ calls[1].returncode = 0
    /\ calls[1].stdout # BadJson
    /\ Len(calls[1].stdout[1]) >= 1

C29_ConcurrentSessionsDistinct ==
    (\A p \in Procs : procs[p].pc = "done") =>
        /\ procs[1].ret # procs[2].ret
        /\ \A p \in Procs :
              \E i \in DOMAIN Sessions : /\ Sessions[i].id = procs[p].ret
                                         /\ Sessions[i].type = "coding"

\* C26: when both sessions have loaded, updated and saved, and the last
\* step was a session's write, the file holds exactly the document that
\* session wrote, and the file loads.
C26_LastWriterWins ==
    (/\ last.op = "write"
     /\ \A p \in Procs : procs[p].pc = "done" /\ procs[p].doc # None)
    => /\ disk = File(Json(procs[last.ret].doc[1]))
       /\ load(disk, clock) # None

\* The registry in this file loads and has an implemented or failed feature.
HasUnfinished(file) ==
    /\ load(file, clock) # None
    /\ \E i \in 1..Len(load(file, clock)[1].features) :
          load(file, clock)[1].features[i].status \in {"IMPLEMENTED", "FAILED"}

\* C30: a stop attempt made while a session is between the truncation and
\* the write of its save is blocked when the registry before that save and
\* the registry being saved both hold an implemented or failed feature.
C30_StopDuringSaveBlocks ==
    (/\ Stopped
     /\ \E p \in Procs : /\ procs[p].pc = "opened"
                         /\ HasUnfinished(procs[p].before)
                         /\ HasUnfinished(File(Json(procs[p].doc[1]))))
    => Blocked

====
